---- MODULE Spec2Model ----
(***************************************************************************)
(* server/summarize.js as a state machine over character sequences: the    *)
(* extractive fallback summarizer (createDemoSummary), and the route POST  *)
(* /summarize with summarizeText, chunkText and callHuggingFaceAPI.        *)
(*                                                                         *)
(* A JavaScript string is a sequence of one-character strings.  Positions  *)
(* are 0-based as in JavaScript: position i of s is s[i + 1], and          *)
(* substring(a, b) is SubSeq(s, a + 1, b).                                 *)
(*                                                                         *)
(* Scores are IEEE doubles in the source; here two scores are compared as  *)
(* exact rationals (see scoreGreater).  The compression ratio is computed  *)
(* as the doubles give it (see compressionRatio).                          *)
(*                                                                         *)
(* Spec is createDemoSummary called again and again; ServerSpec is the     *)
(* route serving concurrent requests, whose handlers interleave at their   *)
(* awaits.                                                                 *)
(***************************************************************************)
EXTENDS Integers, Sequences, FiniteSets, TLC

VARIABLES
    text,            \* argument of the current (or last) call
    pc,              \* position of control inside createDemoSummary
    normalizedText,  \* line 11
    lastIndex,       \* sentenceRegex.lastIndex (line 18, advanced by exec)
    sentences,       \* line 19
    tier,            \* which segmentation produced `sentences`
    sortedIndices,   \* line 194 (0-based sentence indices), <<>> before
    result,          \* the returned string
    first,           \* the first completed call: [text, result], or None
    interleaved,     \* a call with another input was made after the first
    API_KEY,         \* line 7: <<>> when unset, <<value>> otherwise
    request,         \* per request: where its handler stands, req.body.text
    frame,           \* per request: its summarizeText invocation
    heap,            \* the chunkSummaries arrays (line 302)
    response,        \* per request: the response sent, if any
    App,             \* the state of the React component App (useState)
    invocations      \* the invocations of handleSummarize, in order

summarizerVars == <<text, pc, normalizedText, lastIndex, sentences, tier,
                    sortedIndices, result, first, interleaved>>

serverVars == <<API_KEY, request, frame, heap, response>>

appVars == <<App, invocations>>

vars == <<text, pc, normalizedText, lastIndex, sentences, tier,
          sortedIndices, result, first, interleaved,
          API_KEY, request, frame, heap, response, App, invocations>>

-----------------------------------------------------------------------------
(* Bounds of the explored inputs *)

MaxPieces == 3

MaxRepeatPieces == 1

-----------------------------------------------------------------------------
(* Characters *)

Terminators == {".", "!", "?"}

Whitespace == {" ", "\n", "\t", "\r"}

UpperSeq ==
    <<"A", "B", "C", "D", "E", "F", "G", "H", "I", "J", "K", "L", "M",
      "N", "O", "P", "Q", "R", "S", "T", "U", "V", "W", "X", "Y", "Z">>

LowerSeq ==
    <<"a", "b", "c", "d", "e", "f", "g", "h", "i", "j", "k", "l", "m",
      "n", "o", "p", "q", "r", "s", "t", "u", "v", "w", "x", "y", "z">>

UpperChars == {UpperSeq[i] : i \in 1..26}

LowerChars == {LowerSeq[i] : i \in 1..26}

DigitChars == {"0", "1", "2", "3", "4", "5", "6", "7", "8", "9"}

WordChars == UpperChars \cup LowerChars \cup DigitChars \cup {"_"}

IsSpace(c) == c \in Whitespace

-----------------------------------------------------------------------------
(* String primitives *)

Min(S) == CHOOSE x \in S : \A y \in S : x <= y

Max(S) == 0 - Min({0 - x : x \in S})

\* F(v), with v evaluated once.  A LET definition is evaluated at each use
\* when TLC evaluates ENABLED, which the fairness condition of FairSpec
\* needs; a bound variable is not.
Once(v, F(_)) == CHOOSE r \in {F(x) : x \in {v}} : TRUE

\* A loop run for at most n iterations, by halving: Step is the loop body
\* on the loop state, which it leaves alone once the state is done.
RECURSIVE Iterate(_, _, _)
Iterate(Step(_), state, n) ==
    IF n = 0 \/ state.done THEN state
    ELSE IF n = 1 THEN Step(state)
    ELSE Once(Iterate(Step, state, n \div 2), LAMBDA mid :
             Iterate(Step, mid, n - n \div 2))

substring(s, a, b) == SubSeq(s, a + 1, b)

trim(str) ==
    Once(str, LAMBDA s :
        Once({i \in 1..Len(s) : ~IsSpace(s[i])}, LAMBDA keep :
            IF keep = {} THEN <<>> ELSE SubSeq(s, Min(keep), Max(keep))))

toLowerCase(str) ==
    Once(str, LAMBDA s :
        [i \in 1..Len(s) |->
            IF s[i] \in UpperChars
            THEN LowerSeq[CHOOSE k \in 1..26 : UpperSeq[k] = s[i]]
            ELSE s[i]] \o <<>>)

\* End (exclusive, 0-based) of the maximal run of characters of the class C
\* that starts at position i: a greedy C* of the regex engine.
RunWhile(s, i, C) ==
    IF i >= Len(s) THEN i
    ELSE CHOOSE j \in i..Len(s) :
            /\ j = Len(s) \/ s[j + 1] \notin C
            /\ \A m \in i..(j - 1) : s[m + 1] \in C

\* The same for a negated class [^...]: the run stops at a character of C.
RunUntil(s, i, C) ==
    IF i >= Len(s) THEN i
    ELSE CHOOSE j \in i..Len(s) :
            /\ j = Len(s) \/ s[j + 1] \in C
            /\ \A m \in i..(j - 1) : s[m + 1] \notin C

\* The elements lo..hi of the list with sep between them.
RECURSIVE joinRange(_, _, _, _)
joinRange(list, sep, lo, hi) ==
    IF lo > hi THEN <<>>
    ELSE IF lo = hi THEN list[lo]
    ELSE joinRange(list, sep, lo, (lo + hi) \div 2) \o sep
         \o joinRange(list, sep, (lo + hi) \div 2 + 1, hi)

\* Array.prototype.join
join(array, sep) ==
    Once(array, LAMBDA list : joinRange(list, sep, 1, Len(list)))

Space == <<" ">>

Ellipsis == <<".", ".", ".">>

-----------------------------------------------------------------------------
(* Regular expressions of createDemoSummary *)

\* /([^.!?\n]+[.!?]+[\s]*)/ tried at position i: the end of the match, or
\* -1.  The three classes are disjoint, so the greedy runs never backtrack.
sentenceRegexAt(s, i) ==
    Once(RunUntil(s, i, Terminators \cup {"\n"}), LAMBDA j :
        IF j > i /\ j < Len(s) /\ s[j + 1] \in Terminators
        THEN Once(RunWhile(s, j, Terminators), LAMBDA k :
                 RunWhile(s, k, Whitespace))
        ELSE -1)

\* Start of the leftmost match at or after position i, or -1.
sentenceRegexSearch(s, i) ==
    IF \E k \in i..(Len(s) - 1) : sentenceRegexAt(s, k) >= 0
    THEN CHOOSE k \in i..(Len(s) - 1) :
            /\ sentenceRegexAt(s, k) >= 0
            /\ \A m \in i..(k - 1) : sentenceRegexAt(s, m) < 0
    ELSE -1

\* Value of lastIndex a failed exec leaves behind.
lastIndexAfterNull == 0

\* exec of the same regex without the g flag: lastIndex is neither read nor
\* written.
execNotGlobal(s, from) ==
    LET i == sentenceRegexSearch(s, 0)
    IN  IF i < 0
        THEN [found |-> FALSE, index |-> -1, end |-> -1, lastIndex |-> from]
        ELSE [found |-> TRUE, index |-> i, end |-> sentenceRegexAt(s, i),
              lastIndex |-> from]

\* sentenceRegex.exec(s) of a global regex whose lastIndex is `from`:
\* the match (start, end) and the new lastIndex.
exec(s, from) ==
    Once(IF from > Len(s) THEN -1 ELSE sentenceRegexSearch(s, from),
         LAMBDA i :
        IF i < 0
        THEN [found |-> FALSE, index |-> -1, end |-> -1,
              lastIndex |-> lastIndexAfterNull]
        ELSE [found |-> TRUE, index |-> i, end |-> sentenceRegexAt(s, i),
              lastIndex |-> sentenceRegexAt(s, i)])

\* End of a separator match tried at position q, or -1:
\*   "terminators"  /[.!?]+\s+/   (line 33)
\*   "paragraphs"   /\n\s*\n/     (line 42)
\*   "spaces"       /\s{2,}/      (line 49)
\*   "sentenceEnds" /[.!?]+/      (line 213)
separatorAt(kind, s, q) ==
    IF q >= Len(s) THEN -1
    ELSE IF kind = "terminators" THEN
        Once(RunWhile(s, q, Terminators), LAMBDA k :
            IF k > q /\ k < Len(s) /\ s[k + 1] \in Whitespace
            THEN RunWhile(s, k, Whitespace) ELSE -1)
    ELSE IF kind = "paragraphs" THEN
        IF s[q + 1] # "\n" THEN -1
        ELSE Once(RunWhile(s, q + 1, Whitespace), LAMBDA e :
             Once({j \in (q + 1)..(e - 1) : s[j + 1] = "\n"}, LAMBDA nl :
                 IF nl = {} THEN -1 ELSE Max(nl) + 1))
    ELSE IF kind = "sentenceEnds" THEN
        IF s[q + 1] \notin Terminators THEN -1
        ELSE RunWhile(s, q, Terminators)
    ELSE
        Once(RunWhile(s, q, Whitespace), LAMBDA e :
            IF e - q >= 2 THEN e ELSE -1)

\* The characters a separator can start with.
separatorStart(kind) ==
    IF kind \in {"terminators", "sentenceEnds"} THEN Terminators
    ELSE IF kind = "paragraphs" THEN {"\n"}
    ELSE Whitespace

\* Start of the leftmost separator at or after position p, or -1.
separatorSearch(kind, s, p) ==
    IF \A q \in (p + 1)..Len(s) : s[q] \notin separatorStart(kind) THEN -1
    ELSE IF \E q \in p..(Len(s) - 1) : separatorAt(kind, s, q) >= 0
    THEN CHOOSE q \in p..(Len(s) - 1) :
            /\ separatorAt(kind, s, q) >= 0
            /\ \A m \in p..(q - 1) : separatorAt(kind, s, m) < 0
    ELSE -1

\* String.prototype.split with a regex separator that never matches the
\* empty string: the step that cuts the piece starting at st.pos.
splitStep(kind, s, st) ==
    IF st.done THEN st
    ELSE Once(separatorSearch(kind, s, st.pos), LAMBDA q :
        IF q < 0
        THEN [pos |-> Len(s), done |-> TRUE,
              pieces |-> Append(st.pieces, substring(s, st.pos, Len(s)))]
        ELSE [pos |-> separatorAt(kind, s, q), done |-> FALSE,
              pieces |-> Append(st.pieces, substring(s, st.pos, q))])

split(kind, str) ==
    Once(str, LAMBDA s :
        IF Len(s) = 0 THEN <<s>>
        ELSE Iterate(LAMBDA st : splitStep(kind, s, st),
                     [pos |-> 0, done |-> FALSE, pieces |-> <<>>],
                     Len(s) + 1).pieces)

\* The step that takes the first word at or after st.pos.
matchWordsStep(s, st) ==
    IF st.done THEN st
    ELSE Once(RunUntil(s, st.pos, WordChars), LAMBDA i :
        IF i >= Len(s) THEN [pos |-> i, done |-> TRUE, words |-> st.words]
        ELSE Once(RunWhile(s, i, WordChars), LAMBDA e :
                 [pos |-> e, done |-> FALSE,
                  words |-> Append(st.words, substring(s, i, e))]))

\* s.match(/\b\w+\b/g) || []: the maximal runs of word characters.
matchWords(str) ==
    Once(str, LAMBDA s :
        Iterate(LAMBDA st : matchWordsStep(s, st),
                [pos |-> 0, done |-> FALSE, words |-> <<>>],
                Len(s) + 1).words)

\* /\d+/.test(s) || /[A-Z][a-z]+/.test(s)
hasNumberOrProperNoun(s) ==
    \/ \E i \in 1..Len(s) : s[i] \in DigitChars
    \/ \E i \in 1..(Len(s) - 1) :
          s[i] \in UpperChars /\ s[i + 1] \in LowerChars

-----------------------------------------------------------------------------
(* The length filter *)

\* Shortest fragment length that is NOT kept is 10: s.length > 10.
MinSentenceLength == 10

longEnoughFromTen(s) == Len(s) >= MinSentenceLength

longEnough(s) == Len(s) > MinSentenceLength

longEnoughTrimmed(s) == Len(trim(s)) > MinSentenceLength

\* Line 19: a new array for every call.
sharedSentences(old) == old

newSentences(old) == <<>>

\* Line 18: the regex literal is evaluated at every call.
newLastIndex(old) == 0

\* Lines 23-27: the body of the while loop for the match m.
pushSentence(list, s, m) ==
    Once(trim(substring(s, m.index, m.end)), LAMBDA sentence :
        IF longEnough(sentence) THEN Append(list, sentence) ELSE list)

\* Lines 22-28: one iteration of the while loop on its state.
scanStep(s, st) ==
    IF st.done THEN st
    ELSE Once(exec(s, st.lastIndex), LAMBDA m :
        [lastIndex |-> m.lastIndex, done |-> ~m.found,
         sentences |-> IF m.found THEN pushSentence(st.sentences, s, m)
                       ELSE st.sentences])

\* Lines 18-28: the sentences the regex scan keeps.
scanSentences(s) ==
    Iterate(LAMBDA st : scanStep(s, st),
            [lastIndex |-> newLastIndex(0), done |-> FALSE,
             sentences |-> newSentences(<<>>)],
            Len(s) + 1).sentences

-----------------------------------------------------------------------------
(* Segmentation fallbacks, lines 30-54 *)

\* Lines 32-35: split, map(trim), filter.
fallbackSentences(s) ==
    Once(split("terminators", s), LAMBDA pieces :
        SelectSeq([i \in 1..Len(pieces) |-> trim(pieces[i])], longEnough))

\* Lines 41-44: split, map(trim), filter.
paragraphSplit(s) ==
    Once(split("paragraphs", s), LAMBDA pieces :
        SelectSeq([i \in 1..Len(pieces) |-> trim(pieces[i])], longEnough))

\* Line 49: split, filter.
chunks(s) == SelectSeq(split("spaces", s), longEnoughTrimmed)

segmentFallbackAllTiers(found, s) ==
    [sentences |-> found \o fallbackSentences(s) \o paragraphSplit(s)
                   \o chunks(s),
     tier |-> IF Len(found) # 0 THEN "regex"
              ELSE IF Len(fallbackSentences(s)) # 0 THEN "terminators"
              ELSE IF Len(paragraphSplit(s)) > 0 THEN "paragraphs"
              ELSE IF Len(chunks(s)) > 0 THEN "spaces" ELSE "none"]

segmentFallbackFromParagraphs(found, s) ==
    IF Len(found) # 0 THEN [sentences |-> found, tier |-> "regex"]
    ELSE IF Len(paragraphSplit(s)) > 0
    THEN [sentences |-> paragraphSplit(s), tier |-> "paragraphs"]
    ELSE IF Len(fallbackSentences(s)) # 0
    THEN [sentences |-> fallbackSentences(s), tier |-> "terminators"]
    ELSE [sentences |-> chunks(s), tier |-> "spaces"]

\* The sentence list after the three `if (sentences.length === 0)` blocks
\* and the tier it was taken from.
segmentFallback(found, s) ==
    IF Len(found) # 0 THEN [sentences |-> found, tier |-> "regex"]
    ELSE Once(fallbackSentences(s), LAMBDA byTerminators :
         IF Len(byTerminators) # 0
         THEN [sentences |-> byTerminators, tier |-> "terminators"]
         ELSE Once(paragraphSplit(s), LAMBDA byParagraphs :
              IF Len(byParagraphs) > 0
              THEN [sentences |-> byParagraphs, tier |-> "paragraphs"]
              ELSE Once(chunks(s), LAMBDA bySpaces :
                   IF Len(bySpaces) > 0
                   THEN [sentences |-> bySpaces, tier |-> "spaces"]
                   ELSE [sentences |-> <<>>, tier |-> "none"])))

-----------------------------------------------------------------------------
(* Values *)

\* JavaScript values, as far as req.body.text (line 388) and the properties
\* of wordFreq (line 126) take them: undefined, null, a number, an object
\* or a string.
Undefined == [type |-> "undefined", number |-> 0, string |-> <<>>]

Null == [type |-> "null", number |-> 0, string |-> <<>>]

Number(n) == [type |-> "number", number |-> n, string |-> <<>>]

Object == [type |-> "object", number |-> 0, string |-> <<>>]

String(s) == [type |-> "string", number |-> 0, string |-> s]

\* !v
not(v) ==
    \/ v.type \in {"undefined", "null"}
    \/ v.type = "number" /\ v.number = 0
    \/ v.type = "string" /\ Len(v.string) = 0

-----------------------------------------------------------------------------
(* Word frequencies, lines 67-128 *)

stopWords ==
    { <<"t", "h", "e">>, <<"a">>, <<"a", "n">>, <<"a", "n", "d">>,
      <<"o", "r">>, <<"b", "u", "t">>, <<"i", "n">>, <<"o", "n">>,
      <<"a", "t">>, <<"t", "o">>, <<"f", "o", "r">>, <<"o", "f">>,
      <<"w", "i", "t", "h">>, <<"b", "y">>, <<"i", "s">>,
      <<"a", "r", "e">>, <<"w", "a", "s">>, <<"w", "e", "r", "e">>,
      <<"b", "e">>, <<"b", "e", "e", "n">>, <<"h", "a", "v", "e">>,
      <<"h", "a", "s">>, <<"h", "a", "d">>, <<"d", "o">>,
      <<"d", "o", "e", "s">>, <<"d", "i", "d">>, <<"w", "i", "l", "l">>,
      <<"w", "o", "u", "l", "d">>, <<"c", "o", "u", "l", "d">>,
      <<"s", "h", "o", "u", "l", "d">>, <<"m", "a", "y">>,
      <<"m", "i", "g", "h", "t">>, <<"t", "h", "i", "s">>,
      <<"t", "h", "a", "t">>, <<"t", "h", "e", "s", "e">>,
      <<"t", "h", "o", "s", "e">>, <<"i">>, <<"y", "o", "u">>,
      <<"h", "e">>, <<"s", "h", "e">>, <<"i", "t">>, <<"w", "e">>,
      <<"t", "h", "e", "y">>, <<"w", "h", "a", "t">>,
      <<"w", "h", "i", "c", "h">>, <<"w", "h", "o">>,
      <<"w", "h", "e", "n">>, <<"w", "h", "e", "r", "e">>,
      <<"w", "h", "y">>, <<"h", "o", "w">> }

\* The lower-case words that name a property every object inherits:
\* wordFreq = {} (line 121) answers them with a function or an object
\* before the text was read, and with that value or a string afterwards.
inheritedKeys ==
    { <<"c", "o", "n", "s", "t", "r", "u", "c", "t", "o", "r">>,
      <<"_", "_", "p", "r", "o", "t", "o", "_", "_">> }

\* String(Object), the source text of a native function.
ObjectSource == "function Object() { [native code] }"

\* wordFreq after the forEach of line 124: its own properties.  The word
\* constructor finds the inherited function Object at line 126, and
\* (wordFreq[word] || 0) + 1 is that function's source text followed by a 1
\* for each occurrence; the word __proto__ finds Object.prototype, and the
\* assignment of a string to __proto__ changes nothing.
wordFreqTable(t) ==
    Once(matchWords(toLowerCase(t)), LAMBDA words :
        [w \in {words[i] : i \in {k \in 1..Len(words) :
                     /\ words[k] \notin stopWords
                     /\ Len(words[k]) > 2
                     /\ words[k] # <<"_", "_", "p", "r", "o", "t", "o", "_",
                                     "_">>}}
           |-> IF w \in inheritedKeys
               THEN String(<<ObjectSource>>
                           \o [i \in 1..Cardinality({i \in 1..Len(words) :
                                                       words[i] = w})
                                  |-> "1"])
               ELSE Number(Cardinality({i \in 1..Len(words) :
                                           words[i] = w}))])

\* wordFreq as the scoring reads it: a function on the keys that hold a
\* number.
wordFreq(t) ==
    Once(wordFreqTable(t), LAMBDA table :
        [w \in {k \in DOMAIN table : table[k].type = "number"}
           |-> table[w].number])

-----------------------------------------------------------------------------
(* Scoring and selection, lines 130-191 *)

MathMax(a, b) == IF a >= b THEN a ELSE b

MathMin(a, b) == IF a <= b THEN a ELSE b

\* Lines 136-140, for the words lo..hi.
RECURSIVE sumFreq(_, _, _, _)
sumFreq(words, freq, lo, hi) ==
    IF lo > hi THEN 0
    ELSE IF lo = hi
    THEN (IF words[lo] \in DOMAIN freq THEN freq[words[lo]] ELSE 0)
    ELSE sumFreq(words, freq, lo, (lo + hi) \div 2)
         + sumFreq(words, freq, (lo + hi) \div 2 + 1, hi)

\* One entry of sentenceScores (line 131).  The score of the source is
\* weight / 100 / sqrt(words), and 0 when words = 0: weight carries the
\* boosts 1.5, 1.3 and 1.2 as 3/2, 13/10 and 6/5.  It is NaN when a word
\* of the sentence is an inherited key: wordFreq[word] is truthy and not a
\* number then, line 138 makes the score a string and lines 144-158
\* multiply or divide that string.
sentenceScore(sentence, index, N, freq) ==
    Once(matchWords(toLowerCase(sentence)), LAMBDA sentenceWords :
        [index  |-> index,
         words  |-> Len(sentenceWords),
         nan    |-> \E i \in 1..Len(sentenceWords) :
                        sentenceWords[i] \in inheritedKeys,
         weight |-> sumFreq(sentenceWords, freq, 1, Len(sentenceWords))
                    * (IF index = 0 THEN 3 ELSE 2)
                    * (IF index = N - 1 THEN 13 ELSE 10)
                    * (IF hasNumberOrProperNoun(sentence) THEN 6 ELSE 5)])

sentenceScores(list, wordFreqs) ==
    Once(wordFreqs, LAMBDA freq :
        [i \in 1..Len(list) |->
            sentenceScore(list[i], i - 1, Len(list), freq)])

\* a.score > b.score, by squaring both sides; false when a score is NaN.
scoreGreater(a, b) ==
    LET sq(x) == IF x.words = 0 THEN 0 ELSE x.weight * x.weight
        n(x)  == MathMax(x.words, 1)
    IN  ~a.nan /\ ~b.nan /\ sq(a) * n(b) > sq(b) * n(a)

\* The comparator of line 164, (a, b) => b.score - a.score, answers less
\* than 0 for (x, y); a NaN answer counts as 0.
ordered(x, y) == scoreGreater(x, y)

\* Array.prototype.sort of an array of fewer than 64 elements: the run
\* that starts the array is taken as it is (reversed when it is strictly
\* descending for the comparator) and the other elements are inserted one
\* by one by binary search.  With scores that are numbers the result is
\* the stable descending order; with a NaN among them it is whatever
\* these comparisons leave.
runLength(items) ==
    IF Len(items) < 2 THEN Len(items)
    ELSE CHOOSE n \in 2..Len(items) :
            /\ \A i \in 3..n : ordered(items[i], items[i - 1])
                                  = ordered(items[2], items[1])
            /\ \/ n = Len(items)
               \/ ordered(items[n + 1], items[n])
                      # ordered(items[2], items[1])

reverse(list) == [i \in 1..Len(list) |-> list[Len(list) + 1 - i]]

makeRun(items, n) ==
    IF n >= 2 /\ ordered(items[2], items[1])
    THEN reverse(SubSeq(items, 1, n)) \o SubSeq(items, n + 1, Len(items))
    ELSE items

RECURSIVE binarySearch(_, _, _, _)
binarySearch(a, pivot, left, right) ==
    IF left >= right THEN left
    ELSE IF ordered(pivot, a[left + (right - left) \div 2])
    THEN binarySearch(a, pivot, left, left + (right - left) \div 2)
    ELSE binarySearch(a, pivot, left + (right - left) \div 2 + 1, right)

binaryInsertion(st) ==
    IF st.done THEN st
    ELSE IF st.start > Len(st.a) THEN [st EXCEPT !.done = TRUE]
    ELSE Once(binarySearch(st.a, st.a[st.start], 1, st.start), LAMBDA p :
        [start |-> st.start + 1, done |-> FALSE,
         a |-> SubSeq(st.a, 1, p - 1) \o <<st.a[st.start]>>
               \o SubSeq(st.a, p, st.start - 1)
               \o SubSeq(st.a, st.start + 1, Len(st.a))])

\* sentenceScores.sort((a, b) => b.score - a.score), line 164.
sortByScore(array) ==
    Once(array, LAMBDA items :
        Once(runLength(items), LAMBDA n :
            Iterate(LAMBDA st : binaryInsertion(st),
                    [start |-> n + 1, done |-> FALSE,
                     a |-> makeRun(items, n)],
                    Len(items) + 1).a))

targetSentencesAtLeastTwo(N) ==
    MathMax(2, MathMin((N * 35 + 99) \div 100, (N * 6) \div 10))

\* Lines 167-174.  N * 0.35 and N * 0.6 are doubles in the source; their
\* ceil and floor agree with the exact ones for every N.
targetSentences(N) ==
    MathMax(3, MathMin((N * 35 + 99) \div 100, (N * 6) \div 10))

Range(list) == {list[i] : i \in 1..Len(list)}

\* Lines 177-185: the Set in insertion order.
forcedFirstOnly(N) == <<0>>

forcedIndices(N) == IF N > 1 THEN <<0, N - 1>> ELSE <<0>>

\* Lines 188-191: one iteration of the for loop over the sorted items.
addTopScoring(items, target, st) ==
    IF st.done THEN st
    ELSE IF st.i > Len(items) \/ Len(st.selected) >= target
    THEN [st EXCEPT !.done = TRUE]
    ELSE [i |-> st.i + 1, done |-> FALSE,
          selected |-> IF items[st.i].index \in Range(st.selected)
                       THEN st.selected
                       ELSE Append(st.selected, items[st.i].index)]

selectedIndices(list, freq) ==
    Once(sortByScore(sentenceScores(list, freq)), LAMBDA items :
        Iterate(LAMBDA st :
                    addTopScoring(items, targetSentences(Len(list)), st),
                [i |-> 1, done |-> FALSE,
                 selected |-> forcedIndices(Len(list))],
                Len(list) + 1).selected)

\* Array.from(selectedIndices).sort((a, b) => a - b), line 194.
insertionOrder(array) == array

sortAscending(array) ==
    Once(array, LAMBDA list :
        [r \in 1..Len(list) |->
            CHOOSE x \in Range(list) :
                Cardinality({y \in Range(list) : y < x}) = r - 1])

-----------------------------------------------------------------------------
(* The return values *)

\* Line 13.
blankResultTrimmed(t) == trim(t)

blankResult(t) == t

\* Line 57.
fewSentencesThree(list) == Len(list) <= 3

fewSentences(list) == Len(list) <= 2

\* Line 63.
upToThree(list) == Len(list) <= 3

\* Lines 59-60.
condensedUncut(s) == s

condensedNoEllipsis(s) == trim(substring(s, 0, (Len(s) * 6) \div 10))

condensedForty(s) == trim(substring(s, 0, (Len(s) * 4) \div 10)) \o Ellipsis

condensed(s) == trim(substring(s, 0, (Len(s) * 6) \div 10)) \o Ellipsis

\* Line 64.
allSentences(list) == trim(join(list, Space))

\* A filter that keeps nothing.
nonBlankNever(s) == FALSE

nonBlank(s) == Len(s) > 0 /\ Len(trim(s)) > 0

\* Lines 197-200.
buildSummaryLowerCase(list, indices) ==
    join(SelectSeq([i \in 1..Len(indices) |->
                       toLowerCase(list[indices[i] + 1])], nonBlank), Space)

buildSummary(list, indices) ==
    join(SelectSeq([i \in 1..Len(indices) |-> list[indices[i] + 1]],
                   nonBlank), Space)

\* Line 194 applied to the selection of lines 130-191.
sortedSelection(list, t) == sortAscending(selectedIndices(list, wordFreq(t)))

\* Lines 203-209.
finalSummary(joined, s) ==
    Once(joined, LAMBDA summary :
        IF Len(summary) = 0 \/ Len(trim(summary)) = 0
        THEN trim(substring(s, 0, MathMin(Len(s), (Len(s) * 4) \div 10)))
             \o Ellipsis
        ELSE trim(summary))

\* Lines 9-210 as one function of the argument.
createDemoSummary(t) ==
    IF Len(trim(t)) = 0 THEN blankResult(t)
    ELSE Once(trim(t), LAMBDA s :
         Once(segmentFallback(scanSentences(s), s).sentences, LAMBDA list :
             IF fewSentences(list) THEN condensed(s)
             ELSE IF upToThree(list) THEN allSentences(list)
             ELSE finalSummary(buildSummary(list, sortedSelection(list, t)),
                               s)))

-----------------------------------------------------------------------------
(* The remote summarizer: chunkText, callHuggingFaceAPI, summarizeText *)

\* Line 292: the key value that stands for "no key".
placeholderKey == "your_huggingface_api_key_here"

\* process.env.HUGGINGFACE_API_KEY is <<>> when the variable is unset and
\* <<value>> otherwise.  Lines 292, 352 (demoMode) and 358 (its negation).
demoMode(key) == key = <<>> \/ key[1] = "" \/ key[1] = placeholderKey

\* Lines 298, 301 and 321.
ChunkLimit == 1000

\* s.split(/\s+/).length: one more than the number of whitespace runs.
splitLength(s) ==
    Cardinality({q \in 1..Len(s) :
                    IsSpace(s[q]) /\ (q = 1 \/ ~IsSpace(s[q - 1]))}) + 1

\* Line 213.
chunkSentences(t) ==
    SelectSeq(split("sentenceEnds", t), LAMBDA s : Len(trim(s)) > 0)

\* Lines 217-227: the loop body for the sentence list[st.k + 1].
chunkStep(list, maxLength, st) ==
    IF st.k >= Len(list) THEN [st EXCEPT !.done = TRUE]
    ELSE Once(trim(list[st.k + 1]), LAMBDA trimmedSentence :
        IF Len(st.currentChunk) + Len(trimmedSentence) + 1 <= maxLength
        THEN [st EXCEPT !.k = st.k + 1,
                        !.currentChunk =
                            st.currentChunk
                            \o (IF Len(st.currentChunk) > 0
                                THEN <<".", " ">> ELSE <<>>)
                            \o trimmedSentence]
        ELSE [st EXCEPT !.k = st.k + 1,
                        !.chunks =
                            IF Len(st.currentChunk) > 0
                            THEN Append(st.chunks, st.currentChunk \o <<".">>)
                            ELSE st.chunks,
                        !.currentChunk = trimmedSentence])

\* Lines 212-234.
chunkText(t, maxLength) ==
    Once(chunkSentences(t), LAMBDA list :
    Once(Iterate(LAMBDA st : chunkStep(list, maxLength, st),
                 [k |-> 0, done |-> FALSE, currentChunk |-> <<>>,
                  chunks |-> <<>>],
                 Len(list) + 1), LAMBDA st :
    Once(IF Len(st.currentChunk) > 0
         THEN Append(st.chunks, st.currentChunk \o <<".">>)
         ELSE st.chunks, LAMBDA chunkList :
        IF Len(chunkList) > 0 THEN chunkList ELSE <<t>>)))

\* Lines 241-247: the request body that depends on the text.
apiRequest(t) ==
    [inputs |-> t,
     max_length |-> MathMin(250, MathMax(80, Len(t) \div 8)),
     min_length |-> MathMin(50, Len(t) \div 20)]

\* What axios.post settles with.  A rejection carries error.response.status
\* (0 when there is no response) and error.code; a response carries data:
\* its error property ("" when absent), and whether it is an array whose
\* first element has the property summary_text (<<>> when absent or empty).
apiSummary(s) ==
    [rejected |-> FALSE, status |-> 200, code |-> "", error |-> "",
     isArray |-> TRUE, summary_text |-> s]

apiError(message) ==
    [rejected |-> FALSE, status |-> 200, code |-> "", error |-> message,
     isArray |-> FALSE, summary_text |-> <<>>]

apiOther ==
    [rejected |-> FALSE, status |-> 200, code |-> "", error |-> "",
     isArray |-> FALSE, summary_text |-> <<>>]

apiRejected(status, code) ==
    [rejected |-> TRUE, status |-> status, code |-> code, error |-> "",
     isArray |-> FALSE, summary_text |-> <<>>]

\* Lines 259-282: what callHuggingFaceAPI settles with, given what
\* axios.post settled with.  An error thrown at line 260 or 267 is caught at
\* line 268 and has neither response nor code.
callHuggingFaceAPI(outcome) ==
    IF outcome.rejected THEN
        [ok |-> FALSE, summary_text |-> <<>>,
         message |->
            IF outcome.status = 503
            THEN <<"Model is loading, please try again in a few moments">>
            ELSE IF outcome.status = 401
            THEN <<"API key is invalid or not configured">>
            ELSE IF outcome.code = "ECONNABORTED"
            THEN <<"Request timeout - the text might be too long">>
            ELSE <<"API request failed: ", outcome.code>>]
    ELSE IF outcome.error # "" THEN
        [ok |-> FALSE, summary_text |-> <<>>,
         message |-> <<"API request failed: ", outcome.error>>]
    ELSE IF outcome.isArray /\ Len(outcome.summary_text) > 0 THEN
        [ok |-> TRUE, summary_text |-> outcome.summary_text,
         message |-> <<>>]
    ELSE
        [ok |-> FALSE, summary_text |-> <<>>,
         message |-> <<"API request failed: ",
                       "Unexpected API response format">>]

NaN == "NaN"

\* Lines 332-334 and 363-365: Math.round(((o - s) / o) * 100) in IEEE
\* double arithmetic.  The quotient and the product are each rounded to a
\* double; the error is far below 1/(2o), so the result is the integer
\* nearest to the exact percentage except when that lies exactly halfway
\* between two integers, q + 1/2 = k/2 with k odd.  Then (o - s)/o is k/200
\* in absolute value, a double only when 25 divides k: with u the exponent
\* of k/200 (200 * 2^u <= 256k < 400 * 2^u) its 53-bit significand drops
\* r/25 for r = k * 2^(57-u) mod 25, rounding down for r <= 12 and up
\* otherwise, and the product with 100 is off by r/16 (or (25-r)/16) units
\* in the last place when k < 2^u and by half as much otherwise: it leaves
\* the halfway point downwards for r in 9..12 and upwards for r in 13..16.
\* Math.round takes the halfway point itself upwards.
compressionRatio(o, s) ==
    IF o = 0 THEN NaN
    ELSE Once((100 * (o - s)) \div o, LAMBDA q :
         Once(100 * (o - s) - q * o, LAMBDA rem :
            IF 2 * rem < o THEN q
            ELSE IF 2 * rem > o THEN q + 1
            ELSE Once(IF q >= 0 THEN 2 * q + 1 ELSE -(2 * q + 1), LAMBDA k :
                 Once(CHOOSE u \in 0..20 :
                         200 * 2^u <= 256 * k /\ 256 * k < 400 * 2^u,
                      LAMBDA u :
                 Once(((k % 25) * (2^((57 - u) % 20) % 25)) % 25, LAMBDA r :
                    IF k < 2^u /\ r \in (IF o > s THEN 9..12 ELSE 13..16)
                    THEN q ELSE q + 1)))))

\* Lines 330-353: the result object without its timestamp; fallback is
\* absent from it, which reads as false.
aiResult(key, fr, summary) ==
    [summary |-> trim(summary),
     originalLength |-> fr.originalLength,
     summaryLength |-> Len(summary),
     originalWordCount |-> fr.wordCount,
     summaryWordCount |-> splitLength(summary),
     compressionRatio |-> compressionRatio(fr.originalLength, Len(summary)),
     mode |-> IF demoMode(key) THEN "demo" ELSE "ai",
     fallback |-> FALSE]

\* Lines 360-377.
fallbackResultOfPrefix(t, fr) ==
    Once(createDemoSummary(SubSeq(t, 1, MathMin(Len(t), ChunkLimit))),
         LAMBDA summary :
        [summary |-> trim(summary),
         originalLength |-> fr.originalLength,
         summaryLength |-> Len(summary),
         originalWordCount |-> fr.wordCount,
         summaryWordCount |-> splitLength(summary),
         compressionRatio |->
            compressionRatio(fr.originalLength, Len(summary)),
         mode |-> "demo",
         fallback |-> TRUE])

fallbackResult(t, fr) ==
    Once(createDemoSummary(t), LAMBDA summary :
        [summary |-> trim(summary),
         originalLength |-> fr.originalLength,
         summaryLength |-> Len(summary),
         originalWordCount |-> fr.wordCount,
         summaryWordCount |-> splitLength(summary),
         compressionRatio |->
            compressionRatio(fr.originalLength, Len(summary)),
         mode |-> "demo",
         fallback |-> TRUE])

NoResult ==
    [summary |-> <<>>, originalLength |-> 0, summaryLength |-> 0,
     originalWordCount |-> 0, summaryWordCount |-> 0,
     compressionRatio |-> 0, mode |-> "", fallback |-> FALSE]

\* The frame of one summarizeText invocation besides its argument: where
\* it stands (pc), the locals of lines 286-287 and 301-307, the requests it has sent to the
\* remote service and what they settled with, and what it settled with.
\* The array chunkSummaries of line 302 is on the heap.
NoFrame ==
    [pc |-> "idle", originalLength |-> 0, wordCount |-> 0,
     phase |-> "none", chunks |-> <<>>,
     i |-> 0, sent |-> <<>>, received |-> <<>>, result |-> NoResult,
     message |-> <<>>]

\* return at line 343 or 367
returned(fr, res) == [fr EXCEPT !.pc = "returned", !.result = res]

\* throw at line 380
thrown(fr, message) ==
    [fr EXCEPT !.pc = "thrown", !.message = message]

\* await callHuggingFaceAPI(t) at line 299, 311 or 323
awaitCall(fr, phase, t) ==
    [fr EXCEPT !.pc = "call", !.phase = phase,
                  !.sent = Append(fr.sent, apiRequest(t))]

\* Lines 285-311: summarizeText from its call to its first await or its
\* return.
summarizeStart(key, t) ==
    Once([NoFrame EXCEPT !.originalLength = Len(t),
                         !.wordCount = splitLength(t)], LAMBDA fr :
        IF demoMode(key)
        THEN returned(fr, aiResult(key, fr, createDemoSummary(t)))
        ELSE IF Len(t) <= ChunkLimit
        THEN awaitCall(fr, "single", t)
        ELSE Once(chunkText(t, ChunkLimit), LAMBDA chunkList :
                 awaitCall([fr EXCEPT !.chunks = chunkList], "chunk",
                           chunkList[1])))

\* Line 302: whether the invocation allocates chunkSummaries.
allocates(key, t) == ~demoMode(key) /\ Len(t) > ChunkLimit

\* A catch block that throws the error again whatever the key.
catchRethrows(key, t, fr, message) == thrown(fr, message)

\* Lines 354-381: the catch block.
catch(key, t, fr, message) ==
    IF ~demoMode(key)
    THEN returned(fr, fallbackResult(t, fr))
    ELSE thrown(fr, message)

\* Line 312: chunkSummaries after the push, when the chunk call succeeded.
pushed(fr, chunkSummaries, outcome) ==
    IF fr.phase = "chunk" /\ callHuggingFaceAPI(outcome).ok
    THEN Append(chunkSummaries, callHuggingFaceAPI(outcome).summary_text)
    ELSE chunkSummaries

\* Lines 299, 311-326 and 323: summarizeText from the settlement of the
\* call it awaits to its next await or its return.  chunkSummaries is the
\* array after the push of line 312.
summarizeResume(key, t, fr, chunkSummaries, outcome) ==
    Once([fr EXCEPT !.received = Append(fr.received, outcome)],
         LAMBDA f :
    Once(callHuggingFaceAPI(outcome), LAMBDA settled :
        IF ~settled.ok THEN catch(key, t, f, settled.message)
        ELSE IF f.phase = "chunk" THEN
            IF f.i < Len(f.chunks) - 1
            THEN [f EXCEPT !.pc = "sleep"]
            ELSE Once(join(chunkSummaries, Space), LAMBDA combinedSummary :
                    IF Len(combinedSummary) > ChunkLimit
                    THEN awaitCall(f, "final", combinedSummary)
                    ELSE returned(f, aiResult(key, f, combinedSummary)))
        ELSE returned(f, aiResult(key, f, settled.summary_text))))

\* The timer fires and the chunk already summarized is sent again.
summarizeWakeSameChunk(fr) ==
    awaitCall([fr EXCEPT !.i = fr.i + 1], "chunk",
              fr.chunks[fr.i + 1])

\* Lines 315 and 307-311: the timer fires, i++ and the next chunk is sent.
summarizeWake(fr) ==
    awaitCall([fr EXCEPT !.i = fr.i + 1], "chunk",
              fr.chunks[fr.i + 2])

\* summarizeText run by itself on t against the settlements `outcomes` of
\* its remote calls, in order: the frame it ends with.
RECURSIVE runFrom(_, _, _, _, _, _)
runFrom(key, t, fr, chunkSummaries, outcomes, n) ==
    IF fr.pc = "sleep"
    THEN runFrom(key, t, summarizeWake(fr), chunkSummaries, outcomes, n)
    ELSE IF fr.pc = "call" /\ n <= Len(outcomes)
    THEN Once(pushed(fr, chunkSummaries, outcomes[n]), LAMBDA array :
             runFrom(key, t,
                     summarizeResume(key, t, fr, array, outcomes[n]),
                     array, outcomes, n + 1))
    ELSE fr

runAlone(key, t, outcomes) ==
    runFrom(key, t, summarizeStart(key, t), <<>>, outcomes, 1)

\* Line 406 and line 415.
MinTextLength == 200

MaxTextLength == 100000

tooShortInclusive(v) == Len(v.string) <= MinTextLength

tooShort(v) == Len(v.string) < MinTextLength

tooLong(v) == Len(v.string) > MaxTextLength

\* Lines 390-422: the error of the 400 response, or "" when the text is
\* passed on.
validationError(v) ==
    IF not(v) THEN "Text is required"
    ELSE IF v.type # "string" THEN "Invalid input"
    ELSE IF tooShort(v) THEN "Text too short"
    ELSE IF tooLong(v) THEN "Text too long"
    ELSE ""

\* Lines 439-466: the status of the response to a rejected summarizeText.
\* includes(m, word) is decided on the messages callHuggingFaceAPI builds.
errorStatus(message) ==
    IF message = <<"API key is invalid or not configured">> THEN 401
    ELSE IF message =
            <<"Model is loading, please try again in a few moments">>
    THEN 503
    ELSE IF message = <<"Request timeout - the text might be too long">>
    THEN 408
    ELSE 500

NoResponse == [status |-> 0, error |-> "", json |-> NoResult]

\* Lines 427-432 and 433-467: the response once summarizeText has settled.
respond(fr) ==
    IF fr.pc = "returned"
    THEN [status |-> 200, error |-> "", json |-> fr.result]
    ELSE IF fr.pc = "thrown"
    THEN [status |-> errorStatus(fr.message),
          error |-> "Summarization error", json |-> NoResult]
    ELSE NoResponse

-----------------------------------------------------------------------------
(* Inputs: concatenations of a few pieces *)

\* "Cats are mammals. Cats have fur. Cats like fish. "
ThreeSentences ==
    <<"C", "a", "t", "s", " ", "a", "r", "e", " ", "m", "a", "m", "m", "a",
      "l", "s", ".", " ", "C", "a", "t", "s", " ", "h", "a", "v", "e", " ",
      "f", "u", "r", ".", " ", "C", "a", "t", "s", " ", "l", "i", "k", "e",
      " ", "f", "i", "s", "h", ".", " ">>

\* "the quick brown fox"
NoTerminator ==
    <<"t", "h", "e", " ", "q", "u", "i", "c", "k", " ", "b", "r", "o", "w",
      "n", " ", "f", "o", "x">>

\* "a"
OneLetter ==
    <<"a">>

\* a blank line
BlankLine ==
    <<"\n", "\n">>

\* "Hello world... abcd": its 60% prefix is "Hello world"
EllipsisSentence ==
    <<"H", "e", "l", "l", "o", " ", "w", "o", "r", "l", "d", ".", ".", ".",
      " ", "a", "b", "c", "d">>

\* "2024 results summary\nQ1. ": the regex only finds "Q1."
BrokenLine ==
    <<"2", "0", "2", "4", " ", "r", "e", "s", "u", "l", "t", "s", " ", "s",
      "u", "m", "m", "a", "r", "y", "\n", "Q", "1", ".", " ">>

\* "Hi. Yo. Ab.\n\n": three fragments, one paragraph of 11 characters
ShortParagraph ==
    <<"H", "i", ".", " ", "Y", "o", ".", " ", "A", "b", ".", "\n", "\n">>

\* "Many cats sleep during the day. Cats are popular pets worldwide."
TwoMoreSentences ==
    <<"M", "a", "n", "y", " ", "c", "a", "t", "s", " ", "s", "l", "e", "e",
      "p", " ", "d", "u", "r", "i", "n", "g", " ", "t", "h", "e", " ", "d",
      "a", "y", ".", " ", "C", "a", "t", "s", " ", "a", "r", "e", " ", "p",
      "o", "p", "u", "l", "a", "r", " ", "p", "e", "t", "s", " ", "w", "o",
      "r", "l", "d", "w", "i", "d", "e", ".">>

\* " jumps over the lazy dog today"
JumpsOver ==
    <<" ", "j", "u", "m", "p", "s", " ", "o", "v", "e", "r", " ", "t", "h",
      "e", " ", "l", "a", "z", "y", " ", "d", "o", "g", " ", "t", "o", "d",
      "a", "y">>

\* "Dogs bark. ": a sentence of exactly 10 characters
TenCharacters ==
    <<"D", "o", "g", "s", " ", "b", "a", "r", "k", ".", " ">>

\* "Cats are mammals. Dogs bark loudly. The constructor ran. Cats like
\* cats. Birds sing songs.": the third sentence has an inherited key
InheritedKey ==
    <<"C", "a", "t", "s", " ", "a", "r", "e", " ", "m", "a", "m", "m", "a",
      "l", "s", ".", " ", "D", "o", "g", "s", " ", "b", "a", "r", "k", " ",
      "l", "o", "u", "d", "l", "y", ".", " ", "T", "h", "e", " ", "c", "o",
      "n", "s", "t", "r", "u", "c", "t", "o", "r", " ", "r", "a", "n", ".",
      " ", "C", "a", "t", "s", " ", "l", "i", "k", "e", " ", "c", "a", "t",
      "s", ".", " ", "B", "i", "r", "d", "s", " ", "s", "i", "n", "g", " ",
      "s", "o", "n", "g", "s", ".">>

\* "Dogs bark loudly. Owls hoot softly. Mice run away. The constructor ran.
\* Cats like fish. Cats like cats like fish. Fish like cats. Frogs jump
\* high. Birds sing songs.": sentences 4 and 6 have the same words
EqualScores ==
    <<"D", "o", "g", "s", " ", "b", "a", "r", "k", " ", "l", "o", "u", "d",
      "l", "y", ".", " ", "O", "w", "l", "s", " ", "h", "o", "o", "t", " ",
      "s", "o", "f", "t", "l", "y", ".", " ", "M", "i", "c", "e", " ", "r",
      "u", "n", " ", "a", "w", "a", "y", ".", " ", "T", "h", "e", " ", "c",
      "o", "n", "s", "t", "r", "u", "c", "t", "o", "r", " ", "r", "a", "n",
      ".", " ", "C", "a", "t", "s", " ", "l", "i", "k", "e", " ", "f", "i",
      "s", "h", ".", " ", "C", "a", "t", "s", " ", "l", "i", "k", "e", " ",
      "c", "a", "t", "s", " ", "l", "i", "k", "e", " ", "f", "i", "s", "h",
      ".", " ", "F", "i", "s", "h", " ", "l", "i", "k", "e", " ", "c", "a",
      "t", "s", ".", " ", "F", "r", "o", "g", "s", " ", "j", "u", "m", "p",
      " ", "h", "i", "g", "h", ".", " ", "B", "i", "r", "d", "s", " ", "s",
      "i", "n", "g", " ", "s", "o", "n", "g", "s", ".">>

\* "Cats are mammals. Cats have fur. Cats like fish. Many cats sleep during
\* the day. Cats are popular pets worldwide."
CatsFive == ThreeSentences \o TwoMoreSentences

\* "the quick brown fox jumps over the lazy dog today"
LazyDog == NoTerminator \o JumpsOver

\* "Dogs bark. Cats are mammals. Cats have fur. Cats like fish. "
TenThenThree == TenCharacters \o ThreeSentences

\* Inputs taken as they are.
Scenarios == {CatsFive, LazyDog, TenThenThree, InheritedKey, EqualScores}

Palette ==
    <<ThreeSentences, NoTerminator, OneLetter, BlankLine, EllipsisSentence,
      BrokenLine, ShortParagraph>>

\* The pieces that later calls are made of.
RepeatPalette == <<ThreeSentences, BlankLine>>

RECURSIVE Texts(_, _)
Texts(pieces, n) ==
    IF n = 0 THEN {<<>>}
    ELSE Texts(pieces, n - 1) \cup
         {t \o pieces[i] : t \in Texts(pieces, n - 1), i \in 1..Len(pieces)}

Inputs == Texts(Palette, MaxPieces) \cup Scenarios

RepeatInputs == Texts(RepeatPalette, MaxRepeatPieces)

-----------------------------------------------------------------------------
(* Inputs of the route: keys, request bodies, settlements of remote calls *)

\* Concurrent requests, numbered in the order they arrive.
MaxRequests == 2

Requests == 1..MaxRequests

Keys == {<<>>, <<"">>, <<placeholderKey>>, <<"hf_configured">>}

Blanks(n) == [i \in 1..n |-> " "] \o <<>>

\* CatsFive twice, cut to the shortest accepted length, and one character
\* less.
ShortestAccepted == SubSeq(CatsFive \o Space \o CatsFive, 1, MinTextLength)

TooShort == SubSeq(ShortestAccepted, 1, MinTextLength - 1)

\* ThreeSentences with two wide gaps, "Cats are ... mammals. Cats have ...
\* fur. Cats like fish. ": longer than ChunkLimit, and so are its first two
\* sentences together.
WideGaps ==
    SubSeq(ThreeSentences, 1, 8) \o Blanks(500)
    \o SubSeq(ThreeSentences, 9, 27) \o Blanks(500)
    \o SubSeq(ThreeSentences, 28, 49)

\* "Cats are ... mammals. Cats have ... fur.": a sentence of 500 characters
\* and one of 499, 1002 characters in all.
NearLimit ==
    SubSeq(ThreeSentences, 1, 8) \o Blanks(485)
    \o SubSeq(ThreeSentences, 10, 27) \o Blanks(487)
    \o SubSeq(ThreeSentences, 29, 32)

\* "Cats are ... mammals.Cats have fur.Cats like fish.": three sentences
\* with nothing between them, of the shortest accepted length.
NoGaps ==
    SubSeq(ThreeSentences, 1, 8) \o Blanks(MinTextLength - 45)
    \o SubSeq(ThreeSentences, 10, 17) \o SubSeq(ThreeSentences, 19, 32)
    \o SubSeq(ThreeSentences, 34, 48)

\* Whitespace only, of the shortest accepted length.
BlankText == Blanks(MinTextLength)

\* "Cats are mammals" after blanks, of the longest accepted length, and
\* one character more.
LongestAccepted ==
    Blanks(MaxTextLength - 16) \o SubSeq(ThreeSentences, 1, 16)

TooLong == Space \o LongestAccepted

FirstBodies ==
    {Undefined, Null, Number(0), Number(42), Object, String(<<>>),
     String(TooShort), String(ShortestAccepted), String(BlankText),
     String(WideGaps), String(NearLimit), String(NoGaps),
     String(LongestAccepted), String(TooLong)}

\* What the second request and the ones after it carry.
LaterBodies == {Number(42), String(WideGaps)}

LastBodies == {String(WideGaps)}

Bodies(r) ==
    IF r = 1 THEN FirstBodies ELSE IF r = 2 THEN LaterBodies ELSE LastBodies

\* "Cats are mammals."
ShortSummary == SubSeq(CatsFive, 1, 17)

\* 85 of 200 characters: the exact percentage is 57.5.
HalfwaySummary == SubSeq(CatsFive, 1, 85)

\* Two of these joined are longer than ChunkLimit.
RECURSIVE Repeat(_, _)
Repeat(s, n) == IF n = 0 THEN <<>> ELSE s \o Repeat(s, n - 1)

LongSummary == Repeat(CatsFive \o Space, 5)

FirstOutcomes ==
    {apiSummary(ShortSummary), apiSummary(HalfwaySummary),
     apiSummary(LongSummary),
     apiError("Model facebook/bart-large-cnn is currently loading"),
     apiOther, apiRejected(503, "ERR_BAD_RESPONSE"),
     apiRejected(401, "ERR_BAD_REQUEST"), apiRejected(0, "ECONNABORTED")}

LaterOutcomes ==
    {apiSummary(ShortSummary), apiRejected(503, "ERR_BAD_RESPONSE")}

LastOutcomes == {apiRejected(503, "ERR_BAD_RESPONSE")}

Outcomes(r) ==
    IF r = 1 THEN FirstOutcomes
    ELSE IF r = 2 THEN LaterOutcomes ELSE LastOutcomes

-----------------------------------------------------------------------------
(* The React component App: its state and its inputs *)

\* summaryStats is null.
NoStats == [originalLength |-> 0, summaryLength |-> 0, compressionRatio |-> 0]

\* part_001 lines 17-26: the state after the first render.
AppMounted ==
    [inputText |-> <<>>, summary |-> <<>>, isLoading |-> FALSE,
     error |-> "", summaryStats |-> NoStats]

\* The invocations of handleSummarize that ever start.
MaxInvocations == 2

\* What the user leaves in the text area.
AppTexts == {<<>>, ShortestAccepted, NoGaps}

-----------------------------------------------------------------------------
(* The state machine *)

None == <<>>

\* What a return statement leaves in `first`.
Remember(t, r) == IF first = None THEN <<[text |-> t, result |-> r]>> ELSE first

\* createDemoSummary by itself: no key, no request.
Init ==
    /\ text = <<>>
    /\ pc = "idle"
    /\ normalizedText = <<>>
    /\ lastIndex = 0
    /\ sentences = <<>>
    /\ tier = "none"
    /\ sortedIndices = <<>>
    /\ result = <<>>
    /\ first = None
    /\ interleaved = FALSE
    /\ API_KEY = <<>>
    /\ request = [r \in Requests |-> [pc |-> "none", text |-> Undefined]]
    /\ frame = [r \in Requests |-> NoFrame]
    /\ heap = [r \in Requests |-> <<>>]
    /\ response = [r \in Requests |-> NoResponse]
    /\ App = AppMounted
    /\ invocations = <<>>

\* Lines 9-19: entry, the blank-input return, the locals.
Call(t) ==
    /\ pc \in {"idle", "done"}
    /\ text' = t
    /\ normalizedText' = trim(t)
    /\ sortedIndices' = <<>>
    /\ tier' = "none"
    /\ interleaved' = (interleaved \/ (first # None /\ t # first[1].text))
    /\ IF Len(trim(t)) = 0
       THEN /\ result' = blankResult(t)
            /\ pc' = "done"
            /\ first' = Remember(t, blankResult(t))
            /\ UNCHANGED <<lastIndex, sentences>>
       ELSE /\ lastIndex' = newLastIndex(lastIndex)
            /\ sentences' = newSentences(sentences)
            /\ result' = <<>>
            /\ pc' = "scan"
            /\ UNCHANGED first
    /\ UNCHANGED serverVars
    /\ UNCHANGED appVars

\* Lines 22-28: one iteration of the while loop.
ExecMatch ==
    /\ pc = "scan"
    /\ \E match \in {exec(normalizedText, lastIndex)} :
          /\ match.found
          /\ lastIndex' = match.lastIndex
          /\ sentences' = pushSentence(sentences, normalizedText, match)
    /\ UNCHANGED <<text, pc, normalizedText, tier, sortedIndices, result,
                   first, interleaved>>
    /\ UNCHANGED serverVars
    /\ UNCHANGED appVars

\* Line 22: exec returns null and the loop ends.
ExecNull ==
    /\ pc = "scan"
    /\ \E match \in {exec(normalizedText, lastIndex)} :
          /\ ~match.found
          /\ lastIndex' = match.lastIndex
    /\ pc' = "fallback"
    /\ UNCHANGED <<text, normalizedText, sentences, tier, sortedIndices,
                   result, first, interleaved>>
    /\ UNCHANGED serverVars
    /\ UNCHANGED appVars

\* Lines 30-54.
Fallback ==
    /\ pc = "fallback"
    /\ \E segmented \in {segmentFallback(sentences, normalizedText)} :
          /\ sentences' = segmented.sentences
          /\ tier' = segmented.tier
    /\ pc' = "segmented"
    /\ UNCHANGED <<text, normalizedText, lastIndex, sortedIndices, result,
                   first, interleaved>>
    /\ UNCHANGED serverVars
    /\ UNCHANGED appVars

\* Lines 56-61.
ReturnCondensed ==
    /\ pc = "segmented"
    /\ fewSentences(sentences)
    /\ \E summary \in {condensed(normalizedText)} :
          /\ result' = summary
          /\ first' = Remember(text, summary)
    /\ pc' = "done"
    /\ UNCHANGED <<text, normalizedText, lastIndex, sentences, tier,
                   sortedIndices, interleaved>>
    /\ UNCHANGED serverVars
    /\ UNCHANGED appVars

\* Lines 63-65.
ReturnAll ==
    /\ pc = "segmented"
    /\ ~fewSentences(sentences)
    /\ upToThree(sentences)
    /\ \E summary \in {allSentences(sentences)} :
          /\ result' = summary
          /\ first' = Remember(text, summary)
    /\ pc' = "done"
    /\ UNCHANGED <<text, normalizedText, lastIndex, sentences, tier,
                   sortedIndices, interleaved>>
    /\ UNCHANGED serverVars
    /\ UNCHANGED appVars

\* Lines 67-209.
ReturnSelected ==
    /\ pc = "segmented"
    /\ ~fewSentences(sentences)
    /\ ~upToThree(sentences)
    /\ \E indices \in {sortedSelection(sentences, text)} :
       \E summary \in {finalSummary(buildSummary(sentences, indices),
                                    normalizedText)} :
          /\ sortedIndices' = indices
          /\ result' = summary
          /\ first' = Remember(text, summary)
    /\ pc' = "done"
    /\ UNCHANGED <<text, normalizedText, lastIndex, sentences, tier,
                   interleaved>>
    /\ UNCHANGED serverVars
    /\ UNCHANGED appVars

\* The inputs a call is made with: any input for the first call, then the
\* first input again, what the first call returned, or a short one.
Callable ==
    IF first = None THEN Inputs
    ELSE RepeatInputs \cup {first[1].text, first[1].result}

Next ==
    \/ \E t \in Callable : Call(t)
    \/ ExecMatch
    \/ ExecNull
    \/ Fallback
    \/ ReturnCondensed
    \/ ReturnAll
    \/ ReturnSelected

Spec == Init /\ [][Next]_vars

\* createDemoSummary is synchronous: once called it runs to its return.
Run ==
    \/ ExecMatch
    \/ ExecNull
    \/ Fallback
    \/ ReturnCondensed
    \/ ReturnAll
    \/ ReturnSelected

FairSpec == Spec /\ WF_vars(Run)

-----------------------------------------------------------------------------
(* The route POST /summarize *)

\* Line 302: the array an invocation allocates is its own.
chunkSummariesShared(r) == 1

chunkSummariesOf(r) == r

ServerIdle ==
    /\ request = [r \in Requests |-> [pc |-> "none", text |-> Undefined]]
    /\ frame = [r \in Requests |-> NoFrame]
    /\ heap = [r \in Requests |-> <<>>]
    /\ response = [r \in Requests |-> NoResponse]

SummarizerIdle ==
    /\ text = <<>>
    /\ pc = "idle"
    /\ normalizedText = <<>>
    /\ lastIndex = 0
    /\ sentences = <<>>
    /\ tier = "none"
    /\ sortedIndices = <<>>
    /\ result = <<>>
    /\ first = None
    /\ interleaved = FALSE

\* The module is loaded (line 7) and no request has arrived.
ServerInit ==
    /\ SummarizerIdle
    /\ API_KEY \in Keys
    /\ ServerIdle
    /\ App = AppMounted
    /\ invocations = <<>>

Arrives(r) ==
    /\ request[r].pc = "none"
    /\ IF r = 1 THEN TRUE ELSE request[r - 1].pc # "none"

\* Lines 388-422: a request whose text fails the validation.
Reject(r, v) ==
    /\ Arrives(r)
    /\ validationError(v) # ""
    /\ request' = [request EXCEPT ![r] = [pc |-> "responded", text |-> v]]
    /\ response' = [response EXCEPT ![r] =
                       [status |-> 400, error |-> validationError(v),
                        json |-> NoResult]]
    /\ UNCHANGED <<API_KEY, frame, heap>>
    /\ UNCHANGED summarizerVars
    /\ UNCHANGED appVars

\* What a step of summarizeText leaves of request r.
Settled(r, f) ==
    /\ frame' = [frame EXCEPT ![r] = f]
    /\ response' = [response EXCEPT ![r] = respond(f)]
    /\ request' = [request EXCEPT ![r].pc =
                      IF f.pc \in {"returned", "thrown"}
                      THEN "responded" ELSE "summarizing"]

\* Lines 388-432: a request that passes the validation; summarizeText runs
\* to its first await, or to its return and the response.
Summarize(r, v) ==
    /\ Arrives(r)
    /\ validationError(v) = ""
    /\ \E f \in {summarizeStart(API_KEY, v.string)} :
          /\ frame' = [frame EXCEPT ![r] = f]
          /\ response' = [response EXCEPT ![r] = respond(f)]
          /\ request' = [request EXCEPT ![r] =
                [pc |-> IF f.pc \in {"returned", "thrown"}
                        THEN "responded" ELSE "summarizing",
                 text |-> v]]
    /\ heap' = IF allocates(API_KEY, v.string)
               THEN [heap EXCEPT ![chunkSummariesOf(r)] = <<>>]
               ELSE heap
    /\ UNCHANGED API_KEY
    /\ UNCHANGED summarizerVars
    /\ UNCHANGED appVars

\* The remote call of request r settles and summarizeText runs to its next
\* await, or to its return and the response (lines 427-432).
Settle(r, outcome) ==
    /\ frame[r].pc = "call"
    /\ \E array \in {pushed(frame[r], heap[chunkSummariesOf(r)], outcome)} :
       \E f \in {summarizeResume(API_KEY, request[r].text.string, frame[r],
                                 array, outcome)} :
          /\ heap' = [heap EXCEPT ![chunkSummariesOf(r)] = array]
          /\ Settled(r, f)
    /\ UNCHANGED API_KEY
    /\ UNCHANGED summarizerVars
    /\ UNCHANGED appVars

\* Line 315: the timer of request r fires.
Timer(r) ==
    /\ frame[r].pc = "sleep"
    /\ Settled(r, summarizeWake(frame[r]))
    /\ UNCHANGED <<API_KEY, heap>>
    /\ UNCHANGED summarizerVars
    /\ UNCHANGED appVars

ServerNext ==
    \/ \E r \in Requests : \E v \in Bodies(r) : Reject(r, v)
    \/ \E r \in Requests : \E v \in Bodies(r) : Summarize(r, v)
    \/ \E r \in Requests : \E outcome \in Outcomes(r) : Settle(r, outcome)
    \/ \E r \in Requests : Timer(r)

ServerSpec == ServerInit /\ [][ServerNext]_vars

-----------------------------------------------------------------------------
(* The React component App: handleSummarize, part_001 lines 280-392 *)

\* part_001 lines 281 and 590, part_004 line 32; part_001 line 286.
AppMinLength == 200

AppMaxLength == 100000

\* Whether handleSummarize gets past lines 281-289.
fetches(app) ==
    /\ Len(app.inputText) >= AppMinLength
    /\ Len(app.inputText) <= AppMaxLength

\* Lines 281-294: handleSummarize from its call to the fetch of line 298.
handleSummarizeStart(app) ==
    IF Len(app.inputText) < AppMinLength
    THEN [app EXCEPT !.error = "Text must be at least 200 characters long"]
    ELSE IF Len(app.inputText) > AppMaxLength
    THEN [app EXCEPT !.error =
             "Text is too long. Maximum 100,000 characters allowed"]
    ELSE [app EXCEPT !.isLoading = TRUE, !.error = "", !.summary = <<>>,
                     !.summaryStats = NoStats]

\* What fetch settles with: a rejection with its message, or a response
\* with its ok flag, its status and its body: "result" for the JSON of a
\* result, "error" for the JSON of an object with the property error,
\* "html" for a text that is not JSON, "" for an empty one.
fetchRejected(message) ==
    [rejected |-> TRUE, message |-> message, ok |-> FALSE, status |-> 0,
     body |-> "", error |-> ""]

fetchResponse(status, body, error) ==
    [rejected |-> FALSE, message |-> "", ok |-> status \in 200..299,
     status |-> status, body |-> body, error |-> error]

NoFetch == fetchResponse(0, "", "")

\* The result the route answers with when the server has no key.
serverData(t) == runAlone(<<>>, t, <<>>).result

\* Lines 309-332: the message of the error thrown once the body is read,
\* or "" when the body is the JSON of a result.
thrownMessage(res) ==
    IF ~res.ok
    THEN IF res.body = "error" /\ res.error # "" THEN res.error
         ELSE "HTTP error! status: " \o ToString(res.status)
    ELSE IF res.body = "" THEN "Empty response from server"
    ELSE IF res.body = "html" THEN "Invalid JSON response from server"
    ELSE ""

\* err.message.includes(word), for the messages of the model.
includes(message, word) ==
    <<message, word>> \in
        {<<"Failed to fetch", "Failed to fetch">>,
         <<"Empty response from server", "Empty response">>,
         <<"Invalid JSON response from server", "Invalid JSON">>}

\* Lines 334-339: the state after a result was read.
succeeded(app, data) ==
    [app EXCEPT !.summary = data.summary,
                !.summaryStats =
                    [originalLength |-> data.originalLength,
                     summaryLength |-> data.summaryLength,
                     compressionRatio |-> data.compressionRatio],
                !.isLoading = FALSE]

\* Lines 340-391: the catch block and the finally block, for the error
\* message caught by the invocation whose inputText is t.
caught(app, t, message) ==
    IF \/ includes(message, "Failed to fetch")
       \/ includes(message, "ECONNREFUSED")
       \/ includes(message, "NetworkError")
    THEN Once(createDemoSummary(t), LAMBDA demoSummary :
            [app EXCEPT !.summary = demoSummary,
                        !.summaryStats =
                            [originalLength |-> Len(t),
                             summaryLength |-> Len(demoSummary),
                             compressionRatio |->
                                 compressionRatio(Len(t), Len(demoSummary))],
                        !.isLoading = FALSE])
    ELSE [app EXCEPT !.isLoading = FALSE,
                     !.error =
             IF includes(message, "timeout")
             THEN "Request timed out. Please try with shorter text or try again later."
             ELSE IF includes(message, "Rate limit")
             THEN "Rate limit exceeded. Please wait a few minutes before trying again."
             ELSE IF includes(message, "API key")
             THEN "API configuration error. Please contact the administrator."
             ELSE IF includes(message, "model is loading")
             THEN "AI model is loading. Please try again in a few moments."
             ELSE IF \/ includes(message, "Empty response")
                     \/ includes(message, "Invalid JSON")
             THEN "Server communication error. Please try again."
             ELSE message]

\* What the fetch of an invocation can settle with.
FetchOutcomes ==
    {fetchRejected("Failed to fetch"), fetchResponse(200, "result", ""),
     fetchResponse(200, "", ""),
     fetchResponse(400, "error", "Text too short"),
     fetchResponse(502, "html", "")}

\* The component is mounted; the server is not part of this machine.
AppInit ==
    /\ SummarizerIdle
    /\ API_KEY = <<>>
    /\ ServerIdle
    /\ App = AppMounted
    /\ invocations = <<>>

\* part_004 lines 23-28: the user changes the text, onChange = setInputText.
handleChange(t) ==
    /\ App' = [App EXCEPT !.inputText = t]
    /\ UNCHANGED invocations
    /\ UNCHANGED <<summarizerVars, serverVars>>

\* The handleSummarize of the last render is called and runs to its first
\* await, with inputText as that render saw it.
Invoke ==
    /\ Len(invocations) < MaxInvocations
    /\ App' = handleSummarizeStart(App)
    /\ invocations' =
           IF fetches(App)
           THEN Append(invocations,
                       [pc |-> "fetch", inputText |-> App.inputText,
                        response |-> NoFetch])
           ELSE invocations
    /\ UNCHANGED <<summarizerVars, serverVars>>

\* part_001 lines 589-590: a click on the Summarize button, which is
\* disabled while isLoading or with fewer than 200 characters.
ClickSummarize ==
    /\ ~(App.isLoading \/ Len(App.inputText) < AppMinLength)
    /\ Invoke

\* part_004 lines 30-37: Ctrl+Enter in the text area.
handleKeyPress ==
    /\ Len(App.inputText) >= AppMinLength
    /\ Invoke

\* The state updates of a finished invocation.
Finished(k, app) ==
    /\ App' = app
    /\ invocations' = [invocations EXCEPT ![k].pc = "done"]

\* Line 298: the fetch of invocation k settles; a rejection is caught at
\* line 340.
FetchSettles(k, outcome) ==
    /\ invocations[k].pc = "fetch"
    /\ IF outcome.rejected
       THEN Finished(k, caught(App, invocations[k].inputText,
                               outcome.message))
       ELSE /\ invocations' = [invocations EXCEPT ![k].pc = "text",
                                                  ![k].response = outcome]
            /\ UNCHANGED App
    /\ UNCHANGED <<summarizerVars, serverVars>>

\* Lines 310 and 322: response.text() of invocation k settles.
TextSettles(k) ==
    /\ invocations[k].pc = "text"
    /\ \E message \in {thrownMessage(invocations[k].response)} :
          IF message = ""
          THEN Finished(k, succeeded(App,
                               serverData(invocations[k].inputText)))
          ELSE Finished(k, caught(App, invocations[k].inputText, message))
    /\ UNCHANGED <<summarizerVars, serverVars>>

\* part_001 lines 428-433, the Clear All button.
clearAll ==
    /\ App' = [App EXCEPT !.inputText = <<>>, !.summary = <<>>,
                          !.error = "", !.summaryStats = NoStats]
    /\ UNCHANGED invocations
    /\ UNCHANGED <<summarizerVars, serverVars>>

AppNext ==
    \/ \E t \in AppTexts : handleChange(t)
    \/ ClickSummarize
    \/ handleKeyPress
    \/ \E k \in 1..Len(invocations) : \E outcome \in FetchOutcomes :
          FetchSettles(k, outcome)
    \/ \E k \in 1..Len(invocations) : TextSettles(k)
    \/ clearAll

AppSpec == AppInit /\ [][AppNext]_vars

-----------------------------------------------------------------------------
(* Properties *)

Returned == pc = "done"

NonBlank == Len(trim(text)) > 0

\* C1: a call whose argument is non-empty after trimming returns a
\* non-empty string, whatever branch returns.
C1_NonEmptySummary == (Returned /\ NonBlank) => Len(result) > 0

\* A one-character input has returned: its 60% prefix is empty.
C1_Witness ==
    /\ Returned
    /\ Len(normalizedText) = 1
    /\ tier = "none"
    /\ result = Ellipsis

\* C2: a step that returns for an empty or whitespace-only argument is the
\* entry step itself, returns the argument unchanged and leaves the
\* sentence list and the regex position alone.
C2_BlankReturnedUnchanged ==
    [][(pc' = "done" /\ Len(trim(text')) = 0)
          => /\ pc \in {"idle", "done"}
             /\ result' = text'
             /\ sentences' = sentences
             /\ lastIndex' = lastIndex
             /\ tier' = "none"]_vars

\* A whitespace-only argument (not the empty string) has been returned.
C2_Witness ==
    /\ Returned
    /\ Len(text) > 0
    /\ Len(trim(text)) = 0
    /\ result = text
    /\ result # normalizedText

\* C3: every call returns: each iteration of the scan loop moves the regex
\* position forward inside the text, and a call that has started reaches a
\* return statement, with a string of characters as result.
C3_AlwaysReturns ==
    /\ [][(pc = "scan" /\ pc' = "scan")
             => lastIndex < lastIndex' /\ lastIndex' <= Len(normalizedText)]_vars
    /\ [](Returned => result \in Seq(Range(text) \cup {"."}))
    /\ (pc \in {"scan", "fallback", "segmented"}) ~> Returned

\* A call has returned whose loop matched only fragments and whose
\* sentences come from the blank-line split.
C3_Witness ==
    /\ Returned
    /\ NonBlank
    /\ tier = "paragraphs"
    /\ Len(sentences) >= 1
    /\ \E i \in 1..Len(normalizedText) : normalizedText[i] \in Terminators

\* The sentences in the order of the list, restricted to the positions S.
Restrict(list, S) ==
    SelectSeq([i \in 1..Len(list) |-> IF i \in S THEN <<list[i]>> ELSE <<>>],
              LAMBDA x : x # <<>>)

IsJoinOfSentences(r, list) ==
    \E S \in SUBSET (1..Len(list)) :
        r = join([i \in 1..Len(Restrict(list, S)) |-> Restrict(list, S)[i][1]],
                 Space)

IsPrefixWithEllipsis(r, s) ==
    \E k \in 0..Len(s) : r = SubSeq(s, 1, k) \o <<".", ".", ".">>

\* The sentences recognized for the returned call: none for a blank input.
Recognized == IF NonBlank THEN sentences ELSE <<>>

FromSentencesOrPrefix ==
    IF Len(Recognized) >= 3
    THEN IsJoinOfSentences(result, Recognized)
    ELSE IsPrefixWithEllipsis(result, trim(text))

\* C4 as stated: for every input the result is a single-space join of
\* recognized sentences (3 or more recognized) or a prefix of the trimmed
\* input followed by "..." (2 or fewer recognized).
C4_Original == Returned => FromSentencesOrPrefix

\* C4, amended: the same for every input that is non-empty after trimming
\* (a blank input is returned as it is, without "...").
C4_NoFabricatedContent == (Returned /\ NonBlank) => FromSentencesOrPrefix

\* A selection that dropped sentences has been returned.
C4_Witness ==
    /\ Returned
    /\ NonBlank
    /\ tier = "regex"
    /\ Len(sentences) > 3
    /\ Len(result) < Len(normalizedText)
    /\ \E i \in 1..Len(result) : result[i] \in UpperChars

Selecting == Returned /\ NonBlank /\ Len(sentences) > 3

\* C5: with more than 3 sentences, the output is the join of the selected
\* sentences in strictly increasing order of their index.
C5_OrderPreserved ==
    Selecting =>
        /\ \A i \in 1..(Len(sortedIndices) - 1) :
              sortedIndices[i] < sortedIndices[i + 1]
        /\ Range(sortedIndices) \subseteq 0..(Len(sentences) - 1)
        /\ result = join([i \in 1..Len(sortedIndices) |->
                             sentences[sortedIndices[i] + 1]], Space)

\* A selection of sentences 0, one in the middle and the last one, out of
\* at least six, has been returned.
C5_Witness ==
    /\ Selecting
    /\ Len(sentences) >= 6
    /\ Len(sortedIndices) = 3
    /\ sortedIndices[2] > 1

\* C6: for N > 3 sentences the number k of selected sentences satisfies
\* 3 <= k <= max(3, floor(0.6 N)), and sentences 0 and N - 1 are selected.
C6_TargetCountLaw ==
    Selecting =>
        LET N == Len(sentences)
            k == Cardinality(Range(sortedIndices))
        IN  /\ 3 <= k
            /\ k <= 3 \/ 10 * k <= 6 * N
            /\ 0 \in Range(sortedIndices)
            /\ (N - 1) \in Range(sortedIndices)

\* Four sentences, three of them selected.
C6_Witness ==
    /\ Selecting
    /\ Len(sentences) = 4
    /\ Cardinality(Range(sortedIndices)) = 3

\* ceil(35 N / 100) and floor(60 N / 100), by their defining inequalities.
Ceil35(N) == CHOOSE c \in 0..N : 100 * c >= 35 * N /\ 100 * (c - 1) < 35 * N

Floor60(N) == CHOOSE f \in 0..N : 100 * f <= 60 * N /\ 100 * (f + 1) > 60 * N

ExactCount(N, k) ==
    /\ k = (IF Ceil35(N) <= Floor60(N) THEN
                IF Ceil35(N) >= 3 THEN Ceil35(N) ELSE 3
            ELSE IF Floor60(N) >= 3 THEN Floor60(N) ELSE 3)
    /\ k >= 3
    /\ 100 * k >= 35 * N

\* C7 as stated: for N > 3 the summary has exactly
\* max(3, min(ceil(0.35 N), floor(0.6 N))) sentences, which is at least 3,
\* at least 35% of N and never more than 60% of N.
C7_Original ==
    Selecting =>
        /\ ExactCount(Len(sentences), Len(sortedIndices))
        /\ 100 * Len(sortedIndices) <= 60 * Len(sentences)

\* C7, amended: the same, except that for N = 4 the count, 3, is more than
\* 60% of N.
C7_ExactCount ==
    Selecting =>
        /\ ExactCount(Len(sentences), Len(sortedIndices))
        /\ \/ 100 * Len(sortedIndices) <= 60 * Len(sentences)
           \/ Len(sentences) = 4

\* Nine sentences, four of them selected.
C7_Witness ==
    /\ Selecting
    /\ Len(sentences) = 9
    /\ Len(sortedIndices) = 4

RightTrim(s) ==
    SubSeq(s, 1, Max({0} \cup {i \in 1..Len(s) : s[i] \notin Whitespace}))

PrefixRule ==
    LET L == Len(trim(text))
    IN  /\ result = RightTrim(SubSeq(trim(text), 1, (6 * L) \div 10))
                    \o <<".", ".", ".">>
        /\ Len(result) <= L + 3

Condensing == Returned /\ NonBlank /\ Len(sentences) <= 2

\* C8 as stated: with 2 or fewer sentences the result is the first
\* floor(0.6 L) characters of the trimmed input, right-trimmed, followed by
\* "...", no longer than L + 3, and never a join of the sentences.
C8_Original ==
    Condensing => PrefixRule /\ result # join(sentences, Space)

\* C8, amended: the same without the last part: the result can coincide
\* with the join of the recognized sentences.
C8_CondensedPrefix == Condensing => PrefixRule

\* Two sentences were recognized and the cut fell after a space, which was
\* trimmed before "..." was appended.
C8_Witness ==
    /\ Condensing
    /\ Len(sentences) = 2
    /\ Len(result) < (6 * Len(normalizedText)) \div 10 + 3

\* C9: with exactly 3 sentences the result is the three of them in order,
\* joined by single spaces, and nothing is selected or appended.
C9_ThreeJoined ==
    (Returned /\ NonBlank /\ Len(sentences) = 3) =>
        /\ result = sentences[1] \o <<" ">> \o sentences[2] \o <<" ">>
                    \o sentences[3]
        /\ sortedIndices = <<>>

\* Three sentences from the terminator split, each with a line break
\* inside, have been returned: the input without two of its periods.
C9_Witness ==
    /\ Returned
    /\ NonBlank
    /\ Len(sentences) = 3
    /\ tier = "terminators"
    /\ Len(result) = Len(normalizedText) - 2

\* C10: a call with the input of the first call returns what the first call
\* returned, whatever calls were made in between.
C10_Deterministic ==
    (Returned /\ first # None /\ text = first[1].text)
        => result = first[1].result

\* The first input has been summarized again, by selection, after a call
\* with another input.
C10_Witness ==
    /\ Returned
    /\ interleaved
    /\ first # None
    /\ text = first[1].text
    /\ Len(sortedIndices) >= 3
    /\ result = first[1].result


\* C15: for the five-sentence text about cats, five sentences are
\* recognized and the result is three of them joined by single spaces, the
\* first being "Cats are mammals." and the last "Cats are popular pets
\* worldwide.".
C15_CatsFive ==
    (Returned /\ text = CatsFive) =>
        /\ sentences = <<SubSeq(CatsFive, 1, 17), SubSeq(CatsFive, 19, 32),
                         SubSeq(CatsFive, 34, 48), SubSeq(CatsFive, 50, 80),
                         SubSeq(CatsFive, 82, 113)>>
        /\ \E j \in 2..4 :
              result = sentences[1] \o <<" ">> \o sentences[j] \o <<" ">>
                       \o sentences[5]

\* The text about cats has been summarized.
C15_Witness ==
    /\ Returned
    /\ text = CatsFive
    /\ Len(result) < Len(text)
    /\ sortedIndices # <<>>

NoTerminatorIn(t) == \A i \in 1..Len(t) : t[i] \notin Terminators

OneSentenceCondensed ==
    /\ Len(sentences) <= 1
    /\ Len(trim(text)) > 10 => sentences = <<trim(text)>>
                                /\ tier = "terminators"
    /\ Len(trim(text)) <= 10 => sentences = <<>> /\ tier = "none"
    /\ PrefixRule

\* C16 as stated: for every input without a terminator at most one
\* sentence is recognized, the whole trimmed text when it is longer than
\* 10 characters, found by the terminator split, and the result is the
\* 60% prefix followed by "...".
C16_Original == (Returned /\ NoTerminatorIn(text)) => OneSentenceCondensed

\* C16, amended: the same for every input without a terminator that is
\* non-empty after trimming (a blank input is returned as it is).
C16_NoTerminator ==
    (Returned /\ NonBlank /\ NoTerminatorIn(text)) => OneSentenceCondensed

\* "the quick brown fox jumps over the lazy dog today" has been condensed
\* to its first 29 characters and "...".
C16_Witness ==
    /\ Returned
    /\ text = LazyDog
    /\ sentences = <<LazyDog>>
    /\ result = SubSeq(LazyDog, 1, 29) \o Ellipsis

\* C17: summarizing the summary of "the quick brown fox" gives another
\* string than the summary: the function is not idempotent.
C17_NotIdempotent ==
    (/\ Returned
     /\ first # None
     /\ first[1].text = NoTerminator
     /\ text = first[1].result) => result # first[1].result

\* The summary of "the quick brown fox", "the quick b...", has been
\* summarized to "the quic...".
C17_Witness ==
    /\ Returned
    /\ NonBlank
    /\ first # None
    /\ first[1].text = NoTerminator
    /\ text = first[1].result
    /\ Len(result) < Len(text)


\* C18: the step that settles the sentence list takes it from exactly one
\* tier, the first that is not empty in the order regex scan, terminator
\* split, blank-line split, multi-space split, and from no other tier.
C18_OneTierInOrder ==
    [][(pc = "fallback" /\ pc' = "segmented") =>
          LET s == normalizedText
              second == sentences = <<>>
              third  == second /\ fallbackSentences(s) = <<>>
              fourth == third /\ paragraphSplit(s) = <<>>
          IN  /\ (tier' = "regex") = (sentences # <<>>)
              /\ (tier' = "terminators")
                    = (second /\ fallbackSentences(s) # <<>>)
              /\ (tier' = "paragraphs") = (third /\ paragraphSplit(s) # <<>>)
              /\ (tier' = "spaces") = (fourth /\ chunks(s) # <<>>)
              /\ (tier' = "none") = (fourth /\ chunks(s) = <<>>)
              /\ sentences' =
                    (CASE tier' = "regex" -> sentences
                       [] tier' = "terminators" -> fallbackSentences(s)
                       [] tier' = "paragraphs" -> paragraphSplit(s)
                       [] tier' = "spaces" -> chunks(s)
                       [] OTHER -> <<>>)]_vars

\* The regex scan and the terminator split found fragments only, although
\* the text has terminators, and the blank-line split gave two sentences.
C18_Witness ==
    /\ pc = "segmented"
    /\ tier = "paragraphs"
    /\ Len(sentences) = 2
    /\ Len(split("terminators", normalizedText)) > 2

\* C19: every entry of the sentence list has more than 10 characters after
\* trimming, at every point of every call.
C19_LongerThanTen ==
    \A i \in 1..Len(sentences) : Len(trim(sentences[i])) > 10

\* "Dogs bark. Cats are mammals. Cats have fur. Cats like fish." has
\* returned with three sentences: "Dogs bark.", of 10 characters, was
\* matched and dropped.
C19_Witness ==
    /\ Returned
    /\ text = TenThenThree
    /\ Len(sentences) = 3
    /\ result = SubSeq(trim(text), 12, Len(trim(text)))

\* C20: for N > 3 the selected indices are 0, N - 1 and target - 2 others,
\* and no sentence left out has a strictly higher score than a selected
\* one other than the first and the last.
C20_BestRankedSelected ==
    Selecting =>
        LET N      == Len(sentences)
            scores == sentenceScores(sentences, wordFreq(text))
            S      == Range(sortedIndices)
        IN  /\ 0 \in S
            /\ (N - 1) \in S
            /\ Cardinality(S \ {0, N - 1}) = targetSentences(N) - 2
            /\ \A u \in (0..(N - 1)) \ S : \A v \in S \ {0, N - 1} :
                   ~scoreGreater(scores[u + 1], scores[v + 1])

-----------------------------------------------------------------------------
(* Properties of the route and of summarizeText *)

Invoked(r) == frame[r].pc # "idle"

Answered(r) == response[r].status = 200

textOf(r) == request[r].text.string

\* C11: an invocation that returns while others are in flight returns what
\* it returns when run alone on the same text, with the same key, against
\* the same settlements of its remote calls.
C11_NoInterference ==
    [][\A r \in Requests :
          frame[r].pc # "returned" /\ frame'[r].pc = "returned"
          => frame'[r].result
             = runAlone(API_KEY, textOf(r)', frame'[r].received).result]_vars

\* Two invocations have each pushed a chunk summary, and one of them has
\* returned the join of its two.
C11_Witness ==
    \E r \in Requests : \E other \in Requests \ {r} :
        /\ frame[r].pc = "returned"
        /\ frame[r].result.mode = "ai"
        /\ Len(frame[r].chunks) = 2
        /\ Len(heap[chunkSummariesOf(other)]) > 0

SomeCallFailed(r) ==
    \E k \in 1..Len(frame[r].received) :
        ~callHuggingFaceAPI(frame[r].received[k]).ok

KeyMissingOrPlaceholder ==
    IF API_KEY = <<>> THEN TRUE ELSE API_KEY[1] \in {"", placeholderKey}

\* C12 as stated: without a usable key no remote call is made and the
\* result is the local summary, mode demo; with a key and a failed call the
\* result is the local summary of the whole text, mode demo, fallback set.
C12_Original ==
    \A r \in Requests :
        Invoked(r)
        => /\ KeyMissingOrPlaceholder
              => /\ frame[r].sent = <<>>
                 /\ Answered(r)
                 /\ response[r].json.summary = createDemoSummary(textOf(r))
                 /\ response[r].json.mode = "demo"
           /\ ~KeyMissingOrPlaceholder /\ SomeCallFailed(r)
              => /\ Answered(r)
                 /\ response[r].json.summary = createDemoSummary(textOf(r))
                 /\ response[r].json.mode = "demo"
                 /\ response[r].json.fallback

\* C12, amended: the same with the local summary trimmed.
C12_BackendFallback ==
    \A r \in Requests :
        Invoked(r)
        => /\ KeyMissingOrPlaceholder
              => /\ frame[r].sent = <<>>
                 /\ Answered(r)
                 /\ response[r].json.summary
                    = trim(createDemoSummary(textOf(r)))
                 /\ response[r].json.mode = "demo"
           /\ ~KeyMissingOrPlaceholder /\ SomeCallFailed(r)
              => /\ Answered(r)
                 /\ response[r].json.summary
                    = trim(createDemoSummary(textOf(r)))
                 /\ response[r].json.mode = "demo"
                 /\ response[r].json.fallback

\* A configured key, a second chunk call that failed, and the response.
C12_Witness ==
    \E r \in Requests :
        /\ Answered(r)
        /\ ~KeyMissingOrPlaceholder
        /\ Len(frame[r].received) = 2
        /\ SomeCallFailed(r)
        /\ response[r].json.fallback

\* C13: every result has the length of the input as originalLength and
\* round((o - s) / o * 100) as compressionRatio, the exact percentage
\* rounded half up: ratio <= 100 (o - s) / o + 1/2 < ratio + 1.
C13_RatioFormula ==
    \A r \in Requests :
        Answered(r)
        => LET res == response[r].json
               o == res.originalLength
               d == res.originalLength - res.summaryLength
           IN  /\ o = Len(textOf(r))
               /\ 2 * o * res.compressionRatio <= 200 * d + o
               /\ 200 * d + o < 2 * o * (res.compressionRatio + 1)

\* C14: a request is passed to summarizeText exactly when its text is a
\* string of 200 to 100,000 characters, and is otherwise answered with
\* status 400.
C14_Validation ==
    \A r \in Requests :
        request[r].pc # "none"
        => LET v == request[r].text
               valid == /\ v.type = "string"
                        /\ Len(v.string) >= MinTextLength
                        /\ Len(v.string) <= MaxTextLength
           IN  /\ Invoked(r) <=> valid
               /\ ~valid => response[r].status = 400 /\ frame[r] = NoFrame

\* A text of exactly 200 characters has been passed on.
C14_Witness ==
    \E r \in Requests :
        /\ request[r].text.type = "string"
        /\ Len(textOf(r)) = MinTextLength
        /\ Invoked(r)

-----------------------------------------------------------------------------
(* Properties of the scoring and of the selection *)

EqualScore(a, b) ==
    ~a.nan /\ ~b.nan /\ ~scoreGreater(a, b) /\ ~scoreGreater(b, a)

\* C21: of two sentences other than the first and the last that have equal
\* scores, the one with the greater index is selected only if the one with
\* the smaller index is.
C21_EarlierIndexPreferred ==
    Selecting =>
        LET N      == Len(sentences)
            scores == sentenceScores(sentences, wordFreq(text))
            S      == Range(sortedIndices)
        IN  \A u \in 1..(N - 2) : \A v \in (u + 1)..(N - 2) :
                EqualScore(scores[u + 1], scores[v + 1]) /\ v \in S
                => u \in S

\* The lower-case word tokens of a string.
Tokens(s) == matchWords(toLowerCase(s))

\* What the frequency table is to hold: the words that are neither stop
\* words nor of length 2 or less, each with its number of occurrences in t.
Counted(w) == w \notin stopWords /\ Len(w) > 2

\* The sum, over the tokens of the sentence s, of their counts in t.
SumOfCounts(s, t) ==
    LET words == Tokens(s)
        all   == Tokens(t)
    IN  Cardinality({p \in (1..Len(words)) \X (1..Len(all)) :
                        Counted(words[p[1]]) /\ all[p[2]] = words[p[1]]})

\* C22: the score of each sentence is the sum of the counts of its tokens,
\* times 1.5 for index 0, times 1.3 for index N - 1, times 1.2 with a digit
\* or a capital followed by a lower-case letter, divided by the square
\* root of the number of its tokens; here a number, with the three boosts
\* as 3/2, 13/10 and 6/5 of the weight.
C22_SentenceScore ==
    Selecting =>
        LET N      == Len(sentences)
            scores == sentenceScores(sentences, wordFreq(text))
        IN  \A i \in 1..N :
                /\ ~scores[i].nan
                /\ scores[i].index = i - 1
                /\ scores[i].words = Len(Tokens(sentences[i]))
                /\ scores[i].weight
                   = SumOfCounts(sentences[i], text)
                     * (IF i = 1 THEN 3 ELSE 2)
                     * (IF i = N THEN 13 ELSE 10)
                     * (IF hasNumberOrProperNoun(sentences[i])
                        THEN 6 ELSE 5)

\* C23: no key of the frequency table is a stop word or a token of length
\* 2 or less, and each key holds the number of occurrences of that token in
\* the whole input text.
C23_WordFrequencyTable ==
    Selecting =>
        LET table == wordFreqTable(text)
            all   == Tokens(text)
        IN  \A w \in DOMAIN table :
                /\ Counted(w)
                /\ table[w]
                   = Number(Cardinality({k \in 1..Len(all) : all[k] = w}))

-----------------------------------------------------------------------------
(* Properties of chunkText and of the remote calls *)

\* C24: when every sentence of the text is shorter than maxLength, no chunk
\* of chunkText(text, maxLength) is longer than maxLength.
C24_ChunkBound ==
    \A r \in Requests :
        Len(frame[r].chunks) > 0
        => LET list == chunkSentences(textOf(r))
           IN  (\A k \in 1..Len(list) : Len(trim(list[k])) < ChunkLimit)
               => \A k \in 1..Len(frame[r].chunks) :
                      Len(frame[r].chunks[k]) <= ChunkLimit

\* The summaries the first n remote calls of request r returned, joined.
CombinedSummary(r, n) ==
    join([k \in 1..n |->
             callHuggingFaceAPI(frame[r].received[k]).summary_text], Space)

\* C25: with a configured key and a text longer than 1000 characters, the
\* chunks are sent one at a time in chunk order, each after the response
\* to the one before it; nothing is sent after a failed call; and a final
\* call, on the joined chunk summaries, is made exactly when they are
\* longer than 1000 characters together.
C25_ChunkProtocol ==
    \A r \in Requests :
        Len(frame[r].chunks) > 0
        => LET n        == Len(frame[r].chunks)
               sent     == frame[r].sent
               received == frame[r].received
           IN  /\ ~demoMode(API_KEY) /\ Len(textOf(r)) > ChunkLimit
               /\ Len(received) <= Len(sent)
               /\ Len(sent) <= Len(received) + 1
               /\ Len(sent) <= n + 1
               /\ \A k \in 1..MathMin(Len(sent), n) :
                      sent[k] = apiRequest(frame[r].chunks[k])
               /\ \A k \in 1..Len(received) :
                      ~callHuggingFaceAPI(received[k]).ok
                      => k = Len(sent) /\ frame[r].pc = "returned"
               /\ frame[r].pc = "sleep" => Len(sent) = Len(received)
               /\ Len(sent) = n + 1
                  => sent[n + 1] = apiRequest(CombinedSummary(r, n))
               /\ (/\ Len(received) >= n
                   /\ \A k \in 1..n : callHuggingFaceAPI(received[k]).ok)
                  => (Len(sent) = n + 1
                      <=> Len(CombinedSummary(r, n)) > ChunkLimit)

\* Two chunks were summarized one after the other, the summaries were
\* longer than 1000 characters together, and the final call has returned.
C25_Witness ==
    \E r \in Requests :
        /\ frame[r].pc = "returned"
        /\ Len(frame[r].chunks) = 2
        /\ Len(frame[r].sent) = 3
        /\ Len(frame[r].received) = 3
        /\ ~frame[r].result.fallback

\* C26: summarizeText never rejects, so a request that passes the
\* validation is answered, if at all, with status 200 and the result, and
\* no response has status 401, 503, 408 or 500.
C26_AlwaysResult ==
    \A r \in Requests :
        /\ frame[r].pc # "thrown"
        /\ response[r].status \in {0, 200, 400}
        /\ Invoked(r)
           => /\ response[r].status \in {0, 200}
              /\ request[r].pc = "responded"
                 => /\ response[r].status = 200
                    /\ frame[r].pc = "returned"
                    /\ response[r].json = frame[r].result
                    /\ response[r].json.mode \in {"demo", "ai"}

\* The remote service refused the key of a request, and the request was
\* answered with status 200.
C26_Witness ==
    \E r \in Requests :
        /\ request[r].pc = "responded"
        /\ Len(frame[r].received) > 0
        /\ frame[r].received[Len(frame[r].received)].status = 401
        /\ response[r].status = 200

\* C27: in every result, summaryLength is the length of the summary that
\* the same result carries.
C27_SummaryLength ==
    \A r \in Requests :
        Answered(r)
        => response[r].json.summaryLength = Len(response[r].json.summary)

\* C28: for a text of at least 200 characters the local summary is not
\* longer than the text, and the compression ratio of a demo result is not
\* negative.
C28_NeverLonger ==
    \A r \in Requests :
        Answered(r) /\ response[r].json.mode = "demo"
        => /\ Len(textOf(r)) >= MinTextLength
           /\ Len(createDemoSummary(textOf(r))) <= Len(textOf(r))
           /\ response[r].json.summaryLength <= Len(textOf(r))
           /\ response[r].json.compressionRatio >= 0

-----------------------------------------------------------------------------
(* Properties of the final safety net *)

\* What lines 203-207 return: the first 40% of the trimmed text and "...".
SafetyNet(s) ==
    trim(substring(s, 0, MathMin(Len(s), (Len(s) * 4) \div 10))) \o Ellipsis

\* C29: with more than 3 sentences the summary built from the selection is
\* neither empty nor blank, and what is returned is that summary, not the
\* first 40% of the text.
C29_SafetyNetUnused ==
    Selecting =>
        LET summary == buildSummary(sentences, sortedIndices)
        IN  /\ Len(summary) > 0
            /\ Len(trim(summary)) > 0
            /\ result = trim(summary)
            /\ result # SafetyNet(normalizedText)

\* Five sentences were recognized and the summary returned ends with the
\* terminator of the last one.
C29_Witness ==
    /\ Selecting
    /\ Len(sentences) = 5
    /\ Len(result) > 0
    /\ result[Len(result)] \in Terminators
    /\ result # SafetyNet(normalizedText)

-----------------------------------------------------------------------------
(* Properties of the React App *)

Pending(k) == invocations[k].pc \in {"fetch", "text"}

\* C30: at most one invocation of handleSummarize is pending, isLoading is
\* true exactly while one is, and no invocation finishes after one that
\* started later has finished.
C30_OneRequestInFlight ==
    /\ [](Cardinality({k \in 1..Len(invocations) : Pending(k)}) <= 1)
    /\ [](App.isLoading <=> \E k \in 1..Len(invocations) : Pending(k))
    /\ [][\A k \in 1..Len(invocations) :
             Pending(k) /\ invocations'[k].pc = "done"
             => \A j \in (k + 1)..Len(invocations) :
                    invocations[j].pc # "done"]_vars

=============================================================================
